---- MODULE Spec2Model ----
(***************************************************************************)
(* chilliLCARS: the acquisition loop (logger.py), the dashboard's process  *)
(* control surface (webserver.py), the relay outputs (relays.py,           *)
(* config.py) and the irrigation decision (logger.py, sensors.py).         *)
(*                                                                         *)
(* Units: voltages are in millivolts, percentages in thousandths of a      *)
(* percent (the code rounds to 3 decimals), times in seconds.              *)
(***************************************************************************)
EXTENDS Integers, Sequences, FiniteSets, TLC

\* ---------------------------------------------------------------- bounds
MaxInst == 2          \* logger processes launched in one behaviour
MaxTime == 2400       \* the clock stops advancing here
MaxLog == 3           \* rows the relay_log table holds at most

\* ------------------------------------------------------ program constants
WATERING_THRESHOLD == 40000
WATERING_DURATION == 10
WATERING_COOLDOWN == 3600
SLEEP_PERIOD == 2400
defDryV == 1600
defWetV == 200

\* Python's None, kept apart from every voltage, percentage, time and pid
None == 0 - 1
RELAY1 == "RELAY1"
RELAY2 == "RELAY2"
Relays == {RELAY1, RELAY2}

Pids == 1..MaxInst

VARIABLES
    pc,              \* pid -> position of that logger process
    cold,            \* pid -> cold_first argument of run_logger
    how,             \* pid -> how the process left its loop
    gpioClean,       \* pid -> GPIO.cleanup() has run in that process
    conn,            \* pid -> state of the sqlite connection of run_logger
    marker,          \* content of STATUS_FILE
    pin,             \* relay pin -> electrical level
    logger_process,  \* webserver.logger_process: None or the child's pid
    logger_lock,     \* webserver.logger_lock: the call that holds it, and its local proc
    resp,            \* last answer of the dashboard's control surface
    row,             \* last row inserted into logs
    last_watering,   \* content of LAST_WATERING_FILE
    calib_file,      \* content of CALIB_FILE
    relay_log,       \* rows of the relay_log table, oldest first
    now,             \* time.time()
    call             \* last direct call of an irrigation function

vars == <<pc, cold, how, gpioClean, conn, marker, pin, logger_process,
          logger_lock, resp, row, last_watering, calib_file, relay_log, now, call>>

procVars == <<pc, cold, how, gpioClean, conn>>
dashVars == <<logger_process, logger_lock, resp>>
fileVars == <<last_watering, calib_file, relay_log>>

\* ------------------------------------------------------------ positions
StartupPcs == {"boot", "status", "init_relays", "init_db"}
LoopPcs    == {"cycle", "maint", "sleep"}
FinallyPcs == {"finally"}
LivePcs    == StartupPcs \cup LoopPcs \cup FinallyPcs
EndPcs     == {"exited", "dead"}

\* Popen.poll() is None
Alive(p) == pc[p] \in LivePcs

Min(S) == CHOOSE x \in S : \A y \in S : x <= y

Unused == {p \in Pids : pc[p] = "none"}

\* ------------------------------------------------------- status marker
MarkerAbsent     == [form |-> "absent",  pid |-> 0]
MarkerRunning(p) == [form |-> "running", pid |-> p]
MarkerSTOPPED    == [form |-> "STOPPED", pid |-> 0]
MarkerDash       == [form |-> "-.-",     pid |-> 0]

\* ------------------------------------------------------------- relays
\* LOW-trigger logic: LOW = ON, HIGH = OFF.
Level(state) == IF state THEN "LOW" ELSE "HIGH"

set_relay_state(pins, relay, state) == [pins EXCEPT ![relay] = Level(state)]

get_relay_state(pins, relay) == pins[relay] = "LOW"

init_relays(pins) == set_relay_state(set_relay_state(pins, RELAY1, FALSE), RELAY2, FALSE)

\* config.py runs GPIO.setup(..., initial=GPIO.HIGH) in every importing process
gpio_setup(pins) == [r \in Relays |-> "HIGH"]

\* GPIO.cleanup() turns the channels this process used back into inputs
gpio_cleanup(pins) == [r \in Relays |-> "IN"]

\* --------------------------------------------------------- calibration
CalibAbsent == [kind |-> "absent", dry_v |-> 0, wet_v |-> 0]
CalibV(d, w) == [kind |-> "volt", dry_v |-> d, wet_v |-> w]
\* a file open() cannot read, a file json.load rejects, a file whose dry_v
\* and wet_v are not numbers, and the old {"dry": raw, "wet": raw} file
CalibUnreadable == [kind |-> "unreadable", dry_v |-> 0, wet_v |-> 0]
CalibCorrupt    == [kind |-> "corrupt",    dry_v |-> 0, wet_v |-> 0]
CalibText       == [kind |-> "text",       dry_v |-> 0, wet_v |-> 0]
CalibLegacy     == [kind |-> "legacy",     dry_v |-> 20000, wet_v |-> 9000]

\* load_calibration taking the numbers of the old file for voltages
load_calibration_legacy_raw(file) ==
    IF file.kind \in {"volt", "legacy"}
    THEN [dry_v |-> file.dry_v, wet_v |-> file.wet_v]
    ELSE [dry_v |-> defDryV, wet_v |-> defWetV]

load_calibration(file) ==
    IF file.kind = "volt"
    THEN [dry_v |-> file.dry_v, wet_v |-> file.wet_v]
    ELSE [dry_v |-> defDryV, wet_v |-> defWetV]

\* round(n / d, 0) for n >= 0, d > 0: round half to even, as Python's round
RoundDiv(n, d) ==
    LET q == n \div d
        r == n % d
    IN  IF 2 * r < d THEN q
        ELSE IF 2 * r > d THEN q + 1
        ELSE IF q % 2 = 0 THEN q ELSE q + 1

\* max(0.0, min(100.0, percent)), line 165; it commutes with the rounding
Clamp(percent) ==
    IF percent < 0 THEN 0 ELSE IF percent > 100000 THEN 100000 ELSE percent

\* the conversion with the interpolation measured from the wet end
read_soil_percent_from_wet_end(voltage, file) ==
    LET calib == load_calibration(file)
        swap  == calib.dry_v < calib.wet_v
        dry_v == IF swap THEN calib.wet_v ELSE calib.dry_v
        wet_v == IF swap THEN calib.dry_v ELSE calib.wet_v
        span  == dry_v - wet_v
    IN  IF span <= 0 THEN 0
        ELSE IF voltage = None THEN 0
        ELSE IF voltage >= dry_v THEN 0
        ELSE IF voltage <= wet_v THEN 100000
        ELSE Clamp(RoundDiv((voltage - wet_v) * 100000, span))

\* the conversion cutting the decimals off where the code rounds
read_soil_percent_truncating(voltage, file) ==
    LET calib == load_calibration(file)
        swap  == calib.dry_v < calib.wet_v
        dry_v == IF swap THEN calib.wet_v ELSE calib.dry_v
        wet_v == IF swap THEN calib.dry_v ELSE calib.wet_v
        span  == dry_v - wet_v
    IN  IF span <= 0 THEN 0
        ELSE IF voltage = None THEN 0
        ELSE IF voltage >= dry_v THEN 0
        ELSE IF voltage <= wet_v THEN 100000
        ELSE Clamp(((dry_v - voltage) * 100000) \div span)

\* the conversion without the swap of lines 148-149
read_soil_percent_unswapped(voltage, file) ==
    LET calib == load_calibration(file)
        dry_v == calib.dry_v
        wet_v == calib.wet_v
        span  == dry_v - wet_v
    IN  IF span <= 0 THEN 0
        ELSE IF voltage = None THEN 0
        ELSE IF voltage >= dry_v THEN 0
        ELSE IF voltage <= wet_v THEN 100000
        ELSE Clamp(RoundDiv((dry_v - voltage) * 100000, span))

read_soil_percent_from_voltage(voltage, file) ==
    LET calib == load_calibration(file)
        swap  == calib.dry_v < calib.wet_v
        dry_v == IF swap THEN calib.wet_v ELSE calib.dry_v
        wet_v == IF swap THEN calib.dry_v ELSE calib.wet_v
        span  == dry_v - wet_v
    IN  IF span <= 0 THEN 0
        ELSE IF voltage = None THEN 0
        ELSE IF voltage >= dry_v THEN 0
        ELSE IF voltage <= wet_v THEN 100000
        ELSE Clamp(RoundDiv((dry_v - voltage) * 100000, span))

\* ---------------------------------------------------- irrigation decision
WaterAbsent  == [kind |-> "absent",  ts |-> 0]
WaterGarbage == [kind |-> "garbage", ts |-> 0]
WaterTs(t)   == [kind |-> "ts",      ts |-> t]

\* the hold time taken for the cooldown
should_water_short_cooldown(soil_percent, file, t) ==
    IF soil_percent = None THEN FALSE
    ELSE IF soil_percent >= WATERING_THRESHOLD THEN FALSE
    ELSE IF file.kind = "ts" /\ t - file.ts < WATERING_DURATION THEN FALSE
    ELSE TRUE

\* the decision watering at the threshold itself
should_water_at_threshold(soil_percent, file, t) ==
    IF soil_percent = None THEN FALSE
    ELSE IF soil_percent > WATERING_THRESHOLD THEN FALSE
    ELSE IF file.kind = "ts" /\ t - file.ts < WATERING_COOLDOWN THEN FALSE
    ELSE TRUE

should_water(soil_percent, file, t) ==
    IF soil_percent = None THEN FALSE
    ELSE IF soil_percent >= WATERING_THRESHOLD THEN FALSE
    ELSE IF file.kind = "ts" /\ t - file.ts < WATERING_COOLDOWN THEN FALSE
    ELSE TRUE


\* ------------------------------------------------------- sensor inputs
SoilVoltages == {None, 1400}

\* the soil part of one pass over lines 94-117 of run_logger
Reading(v, file) ==
    [soil_voltage |-> v,
     soil_percent |-> read_soil_percent_from_voltage(v, file)]

\* what the four reads of one cycle return: lux (read_bh1750_lux), the soil
\* voltage (read_soil_raw_fresh / read_soil_raw_shared), the DHT22 humidity
\* and temperature (read_retry, both None when it raised or gave nothing)
\* and the DS18B20 temperature; None is a read that yielded nothing
Sensed(lux, soil, hum, temp, ds) ==
    [lux |-> lux, soil |-> soil, hum |-> hum, temp |-> temp, ds |-> ds]

\* ADS1115 at gain 1: 0.125 mV per count
RawOf(v) == IF v = None THEN None ELSE v * 8

\* the row lines 113-137 of run_logger insert into logs
LogRow(s, file) ==
    [dht22_air_temp    |-> s.temp,
     dht22_humidity    |-> s.hum,
     ds18b20_soil_temp |-> s.ds,
     soil_raw          |-> RawOf(s.soil),
     soil_voltage      |-> Reading(s.soil, file).soil_voltage,
     soil_percent      |-> Reading(s.soil, file).soil_percent,
     lux               |-> s.lux]

NoRow == [dht22_air_temp |-> None, dht22_humidity |-> None,
          ds18b20_soil_temp |-> None, soil_raw |-> None,
          soil_voltage |-> None, soil_percent |-> None, lux |-> None]

\* every sensor answering, the soil probe answering or not
LoopInputs == {Sensed(12000, v, 55000, 21500, 18250) : v \in SoilVoltages}

\* -------------------------------------------------- dashboard: responses
NoResp == [op |-> "none", msg |-> "", running |-> FALSE, pid |-> None]
Resp(op, msg, running, pid) == [op |-> op, msg |-> msg, running |-> running, pid |-> pid]

\* poll() tested the wrong way round
is_logger_running_inverted == logger_process # None /\ ~Alive(logger_process)

\* webserver.is_logger_running: its result and the handle it leaves behind
is_logger_running == logger_process # None /\ Alive(logger_process)

HandleAfterPoll == IF is_logger_running THEN logger_process ELSE None

\* webserver.api_status: the marker's content, read back without any check
api_status(m) == IF m.form = "absent" THEN [form |-> "Logger nije pokrenut", pid |-> 0] ELSE m

\* =====================================================================
\*                        the logger process
\* =====================================================================

\* A process running logger.py comes to life: started by the dashboard
\* (Popen in start_logger) or directly by an operator.
Spawn(p, c) ==
    /\ pc' = [pc EXCEPT ![p] = "boot"]
    /\ cold' = [cold EXCEPT ![p] = c]

\* `python logger.py run_first` from a shell: the only mode of __main__ that
\* reaches run_logger, and it passes cold_first=True.
DirectLaunch ==
    /\ Unused # {}
    /\ Spawn(Min(Unused), TRUE)
    /\ UNCHANGED <<how, gpioClean, conn, marker, pin, dashVars, row, fileVars, now, call>>

\* the imports at the top of logger.py: config.py sets both pins up as outputs
Boot(p) ==
    /\ pc[p] = "boot"
    /\ pin' = gpio_setup(pin)
    /\ pc' = [pc EXCEPT ![p] = "status"]
    /\ UNCHANGED <<cold, how, gpioClean, conn, marker, dashVars, row, fileVars, now, call>>

\* run_logger, lines 79-85
WriteStatus(p) ==
    /\ pc[p] = "status"
    /\ marker' = MarkerRunning(p)
    /\ pc' = [pc EXCEPT ![p] = "init_relays"]
    /\ UNCHANGED <<cold, how, gpioClean, conn, pin, dashVars, row, fileVars, now, call>>

\* run_logger, line 87
InitRelays(p) ==
    /\ pc[p] = "init_relays"
    /\ pin' = init_relays(pin)
    /\ pc' = [pc EXCEPT ![p] = "init_db"]
    /\ UNCHANGED <<cold, how, gpioClean, conn, marker, dashVars, row, fileVars, now, call>>

\* run_logger, lines 88-90
InitDb(p) ==
    /\ pc[p] = "init_db"
    /\ conn' = [conn EXCEPT ![p] = "open"]
    /\ pc' = [pc EXCEPT ![p] = "cycle"]
    /\ UNCHANGED <<cold, how, gpioClean, marker, pin, dashVars, row, fileVars, now, call>>

\* init_relays() or init_db() raises: lines 87-90 are outside the try, so the
\* exception ends the process without the finally block.
StartupFail(p) ==
    /\ pc[p] \in {"init_relays", "init_db"}
    /\ pc' = [pc EXCEPT ![p] = "dead"]
    /\ how' = [how EXCEPT ![p] = "init_error"]
    /\ UNCHANGED <<cold, gpioClean, conn, marker, pin, dashVars, row, fileVars, now, call>>

\* One pass over lines 94-137: the four reads, the conversion, the INSERT.
\* Nothing in it calls should_water or perform_watering.
CycleOn(p, inputs) ==
    /\ pc[p] = "cycle"
    /\ \E s \in inputs : row' = LogRow(s, calib_file)
    /\ pc' = [pc EXCEPT ![p] = "maint"]
    /\ UNCHANGED <<cold, how, gpioClean, conn, marker, pin, dashVars, fileVars, now, call>>

Cycle(p) == CycleOn(p, LoopInputs)

\* cleanup_old_images, line 147
Maintain(p) ==
    /\ pc[p] = "maint"
    /\ pc' = [pc EXCEPT ![p] = "sleep"]
    /\ UNCHANGED <<cold, how, gpioClean, conn, marker, pin, dashVars, row, fileVars, now, call>>

\* time.sleep(2400), line 148
Sleep(p) ==
    /\ pc[p] = "sleep"
    /\ now + SLEEP_PERIOD <= MaxTime
    /\ now' = now + SLEEP_PERIOD
    /\ pc' = [pc EXCEPT ![p] = "cycle"]
    /\ UNCHANGED <<cold, how, gpioClean, conn, marker, pin, dashVars, row, fileVars, call>>

\* SIGINT inside the try: the KeyboardInterrupt of line 150. It is a
\* BaseException, so no `except Exception` of a sensor read swallows it.
Interrupt(p) ==
    /\ pc[p] \in LoopPcs
    /\ pc' = [pc EXCEPT ![p] = "finally"]
    /\ how' = [how EXCEPT ![p] = "interrupt"]
    /\ UNCHANGED <<cold, gpioClean, conn, marker, pin, dashVars, row, fileVars, now, call>>

\* SIGINT before the try (lines 79-90): the KeyboardInterrupt ends the
\* process with nothing released.
StartupInterrupt(p) ==
    /\ pc[p] \in StartupPcs
    /\ pc' = [pc EXCEPT ![p] = "dead"]
    /\ how' = [how EXCEPT ![p] = "aborted"]
    /\ UNCHANGED <<cold, gpioClean, conn, marker, pin, dashVars, row, fileVars, now, call>>

\* the finally block without its os.remove
FinallyKeepsMarker(p) ==
    /\ pc[p] = "finally"
    /\ pin' = gpio_cleanup(pin)
    /\ gpioClean' = [gpioClean EXCEPT ![p] = TRUE]
    /\ conn' = [conn EXCEPT ![p] = "closed"]
    /\ pc' = [pc EXCEPT ![p] = "exited"]
    /\ UNCHANGED <<cold, how, marker, dashVars, row, fileVars, now, call>>

\* finally, lines 152-156: GPIO.cleanup(), conn.close(), and the status file
\* is removed whatever it holds
Finally(p) ==
    /\ pc[p] = "finally"
    /\ pin' = gpio_cleanup(pin)
    /\ gpioClean' = [gpioClean EXCEPT ![p] = TRUE]
    /\ conn' = [conn EXCEPT ![p] = "closed"]
    /\ marker' = MarkerAbsent
    /\ pc' = [pc EXCEPT ![p] = "exited"]
    /\ UNCHANGED <<cold, how, dashVars, row, fileVars, now, call>>

\* what a signal with the default disposition does to process p: logger.py
\* installs no handler, so SIGTERM and SIGKILL both end it on the spot.
Killed(p, sig) ==
    /\ pc' = [pc EXCEPT ![p] = "dead"]
    /\ how' = [how EXCEPT ![p] = sig]

\* kill -9, a crash or a power cut
Kill(p) ==
    /\ Alive(p)
    /\ Killed(p, "aborted")
    /\ UNCHANGED <<cold, gpioClean, conn, marker, pin, dashVars, row, fileVars, now, call>>


\* =====================================================================
\*                  the dashboard's control surface
\* =====================================================================
LockFree     == [by |-> "free",  proc |-> None]
LockStart(p) == [by |-> "start", proc |-> p]
LockStop     == [by |-> "stop",  proc |-> None]

\* start_logger, lines 47-50: the early return
StartAlreadyRunning ==
    /\ logger_lock = LockFree
    /\ is_logger_running
    /\ resp' = Resp("start", "already_running", FALSE, None)
    /\ UNCHANGED <<procVars, marker, pin, logger_process, logger_lock, row, fileVars, now, call>>

\* start_logger, lines 51-57: Popen of `logger.py run_first`
StartSpawn ==
    /\ logger_lock = LockFree
    /\ ~is_logger_running
    /\ Unused # {}
    /\ LET p == Min(Unused)
       IN  /\ Spawn(p, TRUE)
           /\ logger_process' = p
           /\ logger_lock' = LockStart(p)
    /\ UNCHANGED <<how, gpioClean, conn, marker, pin, resp, row, fileVars, now, call>>

\* start_logger, lines 58-62: after 0.2 s, is the child still there?
StartCheck ==
    /\ logger_lock.by = "start"
    /\ resp' = IF Alive(logger_lock.proc)
               THEN Resp("start", "started", FALSE, None)
               ELSE Resp("start", "failed_to_start", FALSE, None)
    /\ logger_lock' = LockFree
    /\ UNCHANGED <<procVars, marker, pin, logger_process, row, fileVars, now, call>>

start_logger == StartAlreadyRunning \/ StartSpawn \/ StartCheck

\* stop_logger, lines 68-75: nothing is running
StopNotRunning ==
    /\ logger_lock = LockFree
    /\ ~is_logger_running
    /\ logger_process' = HandleAfterPoll
    /\ marker' = MarkerSTOPPED
    /\ resp' = Resp("stop", "not_running", FALSE, None)
    /\ UNCHANGED <<procVars, pin, logger_lock, row, fileVars, now, call>>

\* stop_logger, lines 68-69: a child is running, the call goes on to line 77
StopBegin ==
    /\ logger_lock = LockFree
    /\ is_logger_running
    /\ logger_lock' = LockStop
    /\ UNCHANGED <<procVars, marker, pin, logger_process, resp, row, fileVars, now, call>>

\* the child is ended but the sentinel is not written
StopTerminateNoSentinel ==
    /\ logger_lock = LockStop
    /\ logger_process # None
    /\ IF Alive(logger_process)
       THEN Killed(logger_process, "sigterm")
       ELSE UNCHANGED <<pc, how>>
    /\ resp' = Resp("stop", "stopped", FALSE, None)
    /\ logger_process' = None
    /\ logger_lock' = LockFree
    /\ UNCHANGED <<cold, gpioClean, conn, marker, pin, row, fileVars, now, call>>

\* stop_logger, lines 77-91: terminate(), at most 2 s of polling, kill(),
\* then the sentinel
StopTerminate ==
    /\ logger_lock = LockStop
    /\ logger_process # None
    /\ IF Alive(logger_process)
       THEN Killed(logger_process, "sigterm")
       ELSE UNCHANGED <<pc, how>>
    /\ resp' = Resp("stop", "stopped", FALSE, None)
    /\ logger_process' = None
    /\ marker' = MarkerDash
    /\ logger_lock' = LockFree
    /\ UNCHANGED <<cold, gpioClean, conn, pin, row, fileVars, now, call>>

\* stop_logger, lines 92-94: a poll outside the lock has cleared the handle
\* in the meantime, and logger_process.terminate() raises on None
StopError ==
    /\ logger_lock = LockStop
    /\ logger_process = None
    /\ resp' = Resp("stop", "error", FALSE, None)
    /\ logger_lock' = LockFree
    /\ UNCHANGED <<procVars, marker, pin, logger_process, row, fileVars, now, call>>

stop_logger == StopNotRunning \/ StopBegin \/ StopTerminate \/ StopError

\* api_run_status taking the pid before is_logger_running has polled
api_run_status_pid_first ==
    /\ resp' = Resp("status", "", is_logger_running, logger_process)
    /\ logger_process' = HandleAfterPoll
    /\ UNCHANGED <<procVars, marker, pin, logger_lock, row, fileVars, now, call>>

\* api_run_status (also the poll of index and of the start/stop routes):
\* is_logger_running() outside the lock, then the pid of what is left
api_run_status ==
    /\ resp' = Resp("status", "", is_logger_running, HandleAfterPoll)
    /\ logger_process' = HandleAfterPoll
    /\ UNCHANGED <<procVars, marker, pin, logger_lock, row, fileVars, now, call>>

\* database.insert_relay_event: one more row, whatever the relay was before
RelayEvent(relay_name, action, source) ==
    [relay_name |-> relay_name, action |-> action, source |-> source]

insert_relay_event(log, relay_name, action, source) ==
    Append(log, RelayEvent(relay_name, action, source))

\* api_relay_toggle / toggle_relay: the pin is written whoever owns it, then
\* the event is inserted with source "button"
api_relay_toggle ==
    /\ Len(relay_log) < MaxLog
    /\ \E r \in Relays, s \in BOOLEAN :
         /\ pin' = set_relay_state(pin, r, s)
         /\ relay_log' = insert_relay_event(relay_log, r,
                                            IF s THEN "ON" ELSE "OFF", "button")
    /\ UNCHANGED <<procVars, marker, dashVars, row, last_watering, calib_file, now, call>>

\* =====================================================================
\*                       the whole installation
\* =====================================================================
NoCall == [fn |-> "none", arg |-> None, ret |-> "none", val |-> None, at |-> 0]
Called(fn, arg, ret) == [fn |-> fn, arg |-> arg, ret |-> ret, val |-> None, at |-> now]
\* a call that returned a number
Returned(fn, arg, val) == [fn |-> fn, arg |-> arg, ret |-> "value", val |-> val, at |-> now]
PyBool(b) == IF b THEN "True" ELSE "False"

Init ==
    /\ pc = [p \in Pids |-> "none"]
    /\ cold = [p \in Pids |-> TRUE]
    /\ how = [p \in Pids |-> "running"]
    /\ gpioClean = [p \in Pids |-> FALSE]
    /\ conn = [p \in Pids |-> "none"]
    /\ marker = MarkerAbsent
    /\ pin = [r \in Relays |-> "HIGH"]
    /\ logger_process = None
    /\ logger_lock = LockFree
    /\ resp = NoResp
    /\ row = NoRow
    /\ last_watering = WaterAbsent
    /\ calib_file = CalibAbsent
    /\ relay_log = <<>>
    /\ now = 0
    /\ call = NoCall

Step(p) ==
    \/ Boot(p) \/ WriteStatus(p) \/ InitRelays(p) \/ InitDb(p) \/ StartupFail(p)
    \/ Cycle(p) \/ Maintain(p) \/ Sleep(p)
    \/ Interrupt(p) \/ StartupInterrupt(p) \/ Finally(p)
    \/ Kill(p)

Next ==
    \/ DirectLaunch
    \/ \E p \in Pids : Step(p)
    \/ start_logger
    \/ stop_logger
    \/ api_run_status

Spec == Init /\ [][Next]_vars


\* =====================================================================
\*          the irrigation functions of logger.py, called directly
\* =====================================================================
\* run_logger never calls them, so they are exercised on their own: on the
\* reading a cycle produces, on the watering record and on the clock.
SoilPercents == {None, 0, 35000, 39999, 40000, 78571}
CycleVoltages == {None, 200, 500, 1040, 1400, 1600}
WaterFiles == {WaterAbsent, WaterGarbage, WaterTs(0), WaterTs(10)}
TimePoints == {0, 10, 3599, 3600, 3609, 3610, 7200}

\* should_water(soil_percent)
ShouldWaterCall ==
    /\ \E sp \in SoilPercents :
         call' = Called("should_water", sp, PyBool(should_water(sp, last_watering, now)))
    /\ UNCHANGED <<procVars, marker, pin, dashVars, row, fileVars, now>>

\* the decision on a cycle's own reading: soil_percent as lines 98-102 and
\* 117 of run_logger compute it from the voltage, handed to should_water
CycleDecision ==
    /\ \E v \in CycleVoltages :
         call' = Called("decision", v,
                        PyBool(should_water(Reading(v, calib_file).soil_percent,
                                            last_watering, now)))
    /\ UNCHANGED <<procVars, marker, pin, dashVars, row, fileVars, now>>

\* perform_watering(): logger.py imports RELAY1 only (line 10), so the RELAY2
\* of line 69 is a NameError, raised before set_relay_state is entered. The
\* call ends there: no pin is written and no watering record is stored.
\* perform_watering storing the record before it touches the relay
perform_watering_records_first ==
    /\ call' = Called("perform_watering", None, "NameError")
    /\ last_watering' = WaterTs(now)
    /\ UNCHANGED <<procVars, marker, pin, dashVars, row, calib_file, relay_log, now>>

perform_watering ==
    /\ call' = Called("perform_watering", None, "NameError")
    /\ UNCHANGED <<procVars, marker, pin, dashVars, row, fileVars, now>>

\* time passes
Tick ==
    /\ \E t \in TimePoints : t > now /\ now' = t
    /\ UNCHANGED <<procVars, marker, pin, dashVars, row, fileVars, call>>

InitWater ==
    /\ pc = [p \in Pids |-> "none"]
    /\ cold = [p \in Pids |-> TRUE]
    /\ how = [p \in Pids |-> "running"]
    /\ gpioClean = [p \in Pids |-> FALSE]
    /\ conn = [p \in Pids |-> "none"]
    /\ marker = MarkerAbsent
    /\ pin = [r \in Relays |-> "HIGH"]
    /\ logger_process = None
    /\ logger_lock = LockFree
    /\ resp = NoResp
    /\ row = NoRow
    /\ last_watering \in WaterFiles
    /\ calib_file = CalibAbsent
    /\ relay_log = <<>>
    /\ now = 0
    /\ call = NoCall

NextWater ==
    \/ ShouldWaterCall
    \/ CycleDecision
    \/ perform_watering
    \/ api_relay_toggle
    \/ Tick

SpecWater == InitWater /\ [][NextWater]_vars


\* =====================================================================
\*                             properties
\* =====================================================================
InLoop(p) == pc[p] \in LoopPcs

\* the dashboard's managed child is alive
ManagedLive == logger_process # None /\ pc[logger_process] \in LivePcs

Sentinels == {MarkerSTOPPED, MarkerDash}

\* no watering was recorded within the last WATERING_COOLDOWN seconds
CooldownClear ==
    last_watering.kind # "ts" \/ now - last_watering.ts >= WATERING_COOLDOWN

\* C1: at most one acquisition loop instance executes at any time: whatever
\* the interleaving of start() calls and direct launches of logger.py, no
\* instance is in its control loop while another one is in its own.
C1_OneLoopInstance ==
    \A p, q \in Pids : (InLoop(p) /\ InLoop(q)) => p = q

\* C2: a cycle whose soil_percent is a real reading below the 40.0 %
\* threshold, with no watering recorded in the last 3600 s, waters within
\* that cycle: when the cycle has persisted its row, last_watered_at is the
\* current time.
C2_DryCycleWaters ==
    [][\A p \in Pids :
         (/\ pc[p] = "cycle"
          /\ pc'[p] = "maint"
          /\ row'.soil_voltage # None
          /\ row'.soil_percent < WATERING_THRESHOLD
          /\ CooldownClear)
         => last_watering' = WaterTs(now')]_vars

C4_CooldownSuppresses ==
    (/\ call.fn \in {"should_water", "decision"}
     /\ last_watering.kind = "ts"
     /\ call.at - last_watering.ts < WATERING_COOLDOWN)
    => call.ret = "False"

C4_Witness ==
    /\ call.fn = "should_water"
    /\ call.arg = 35000
    /\ last_watering = WaterTs(10)
    /\ call.at = 3609
    /\ call.ret = "False"

StartCalled ==
    /\ logger_lock = LockFree
    /\ \/ logger_lock'.by = "start"
       \/ (resp'.op = "start" /\ resp' # resp)

StopReturned ==
    /\ resp'.op = "stop"
    /\ resp'.msg # "error"
    /\ logger_lock' = LockFree
    /\ \/ logger_lock = LockStop
       \/ /\ logger_lock = LockFree
          /\ UNCHANGED pc
          /\ <<resp, marker, logger_process>>' # <<resp, marker, logger_process>>

C8_StopReachesCleanup ==
    [][(/\ logger_lock = LockStop
        /\ logger_lock' = LockFree
        /\ resp'.msg = "stopped"
        /\ InLoop(logger_process))
         => /\ gpioClean'[logger_process]
            /\ conn'[logger_process] = "closed"
            /\ \A r \in Relays : ~get_relay_state(pin', r)]_vars

\* C9: an instance that was interrupted inside its loop and has shut down
\* has released the GPIO and closed the store, and no marker in the running
\* form with its PID is left.
C9_InterruptCleansUp ==
    \A p \in Pids :
        (pc[p] = "exited" /\ how[p] = "interrupt")
        => /\ gpioClean[p]
           /\ conn[p] = "closed"
           /\ marker # MarkerRunning(p)

C9_Witness ==
    \E p \in Pids : pc[p] = "exited" /\ how[p] = "interrupt" /\ row # NoRow

\* C10: when the acquisition process was killed without a graceful stop,
\* status() does not report it running and the status handed to consumers
\* is not the running form with the dead process's PID.
C10_StaleMarkerDetected ==
    \A p \in Pids :
        (pc[p] = "dead" /\ how[p] = "aborted")
        => /\ ~(logger_process = p /\ is_logger_running)
           /\ api_status(marker) # MarkerRunning(p)

\* ---------------------------------------------------------------------
\* C11: the status marker agrees with the running state. While an instance
\* is in its control loop the marker is in the running form with that
\* instance's pid; nothing another process does (a stop() of a dashboard
\* that manages nothing, the exit of another instance) overwrites or
\* removes it. Stated for the only instance ever launched, so that no
\* second instance is needed to break it.
OnlyInstance(p) == \A q \in Pids \ {p} : pc[q] = "none"

C11_MarkerAgreesWithLoop ==
    \A p \in Pids :
        (InLoop(p) /\ OnlyInstance(p)) => marker = MarkerRunning(p)


\* =====================================================================
\*     one logger process next to the dashboard's relay buttons
\* =====================================================================
\* run_logger(cold_first) called in a fresh process, once: the command line
\* passes True, the function's own default is False (the shared I2C bus)
SoloLaunch ==
    /\ Unused = Pids
    /\ \E c \in BOOLEAN : Spawn(Min(Unused), c)
    /\ UNCHANGED <<how, gpioClean, conn, marker, pin, dashVars, row, fileVars, now, call>>

NextRelay ==
    \/ SoloLaunch
    \/ \E p \in Pids : Step(p)
    \/ api_relay_toggle
    \/ perform_watering

SpecRelay == Init /\ [][NextRelay]_vars

\* the relay's logical state went from one value to the other in this step
Flipped(r) == get_relay_state(pin', r) # get_relay_state(pin, r)

\* the row this step appended to relay_log
Appended == relay_log'[Len(relay_log')]

\* ---------------------------------------------------------------------
\* C12: redundant relay commands are not audited. A row is added to the
\* relay log only by a step that changed the logical state of the relay the
\* row names, so the rows count the commands that changed something: ON,
\* ON, OFF on a relay that is OFF leaves two rows.
C12_RedundantCommandNotLogged ==
    [][relay_log' # relay_log => Flipped(Appended.relay_name)]_vars

\* ---------------------------------------------------------------------
\* C13: every change of a relay's logical state, whoever makes it (a
\* dashboard button, the watering action, the initialization of the relays),
\* adds exactly one row to the relay log, naming that relay and the state
\* it went to.
C13_EveryFlipLogged ==
    [][\A r \in Relays :
          Flipped(r) =>
             /\ Len(relay_log') = Len(relay_log) + 1
             /\ Appended.relay_name = r
             /\ Appended.action = (IF get_relay_state(pin', r) THEN "ON" ELSE "OFF")
             /\ Appended.source \in {"button", "auto", "init"}]_vars


\* =====================================================================
\*     one logger process, every sensor outcome, both soil modes
\* =====================================================================
\* each of the four reads answering or not
AllInputs ==
    {Sensed(l, v, d[1], d[2], t) :
        l \in {None, 12000}, v \in SoilVoltages,
        d \in {<<None, None>>, <<55000, 21500>>}, t \in {None, 18250}}

CycleAll(p) == CycleOn(p, AllInputs)

\* read_soil_raw_shared (sensors.py 13-24) has no try/except: with the bus
\* object present, an OSError of the ADS1115 transfer leaves line 101 of
\* run_logger as an exception. The loop has only `except KeyboardInterrupt`
\* (line 150), so the finally block runs and the process ends.
CycleRaise(p) ==
    /\ pc[p] = "cycle"
    /\ ~cold[p]
    /\ pc' = [pc EXCEPT ![p] = "finally"]
    /\ how' = [how EXCEPT ![p] = "exception"]
    /\ UNCHANGED <<cold, gpioClean, conn, marker, pin, dashVars, row, fileVars, now, call>>

StepLoop(p) ==
    \/ Boot(p) \/ WriteStatus(p) \/ InitRelays(p) \/ InitDb(p) \/ StartupFail(p)
    \/ CycleAll(p) \/ CycleRaise(p) \/ Maintain(p) \/ Sleep(p)
    \/ Interrupt(p) \/ StartupInterrupt(p) \/ Finally(p)
    \/ Kill(p)

NextLoop ==
    \/ SoloLaunch
    \/ \E p \in Pids : StepLoop(p)

SpecLoop == Init /\ [][NextLoop]_vars

\* ---------------------------------------------------------------------
\* C14: the failure of a single sensor read (soil moisture in shared or in
\* fresh mode, air temperature and humidity, soil temperature, illuminance)
\* or of the maintenance step does not abort the loop: no instance leaves
\* its loop on an exception.
C14_SensorFailureKeepsLoop ==
    \A p \in Pids : how[p] # "exception"

\* ---------------------------------------------------------------------
\* C15: a cycle whose soil moisture read yielded nothing persists soil_raw,
\* soil_voltage and soil_percent all null.
C15_AbsentSoilAllNull ==
    row.soil_voltage = None =>
        (row.soil_raw = None /\ row.soil_percent = None)

\* ---------------------------------------------------------------------
\* C16: a cycle persists its row only after the irrigation decision of that
\* cycle has been made, and the decision is taken on the soil reading of
\* the same cycle.
C16_DecisionBeforePersist ==
    [][\A p \in Pids :
          (pc[p] = "cycle" /\ pc'[p] = "maint") =>
             /\ call'.fn = "decision"
             /\ call'.at = now'
             /\ call'.arg = row'.soil_voltage]_vars

\* ---------------------------------------------------------------------
\* C17: an instance writes the running marker only after it has initialized
\* both relays and opened the store: while a live instance's running marker
\* is on disk, that instance is past its startup and its connection is open.
C17_MarkerAfterInit ==
    \A p \in Pids :
        (Alive(p) /\ marker = MarkerRunning(p)) =>
            (pc[p] \notin StartupPcs /\ conn[p] = "open")

\* ---------------------------------------------------------------------
\* C18: an instance whose relay initialization or store opening failed at
\* startup never enters its loop and releases what it acquired: the GPIO is
\* cleaned up and its running marker is not left behind.
C18_FailedStartupReleases ==
    \A p \in Pids :
        how[p] = "init_error" =>
            /\ ~InLoop(p)
            /\ gpioClean[p]
            /\ marker # MarkerRunning(p)

\* ---------------------------------------------------------------------
\* C19: while an instance is in its loop and owns the hardware, no other
\* process changes a relay output or writes the marker: a step that is not
\* the logger's own leaves the pins and the marker alone.
C19_NoForeignWriteWhileRunning ==
    [][((\E p \in Pids : InLoop(p)) /\ pc' = pc) =>
          (pin' = pin /\ marker' = marker)]_vars


\* =====================================================================
\*            the conversion of sensors.py on stored profiles
\* =====================================================================
\* voltages stored as dry_v or wet_v: in either order, equal, or no file
ProfileVolts == {200, 900, 1600, 2500}
CalibFiles ==
    {CalibAbsent, CalibUnreadable, CalibCorrupt, CalibText, CalibLegacy}
        \cup {CalibV(d, w) : d, w \in ProfileVolts}

\* probe voltages below, at, between and above the stored ones
ProbeVolts == {0, 200, 201, 550, 900, 1040, 1599, 1600, 2000, 2500, 3300}

\* read_soil_percent / test_ads / api_sensor_read: a probe voltage converted
\* under the stored profile
read_soil_percent ==
    /\ \E v \in ProbeVolts :
         call' = Returned("read_soil_percent", v,
                          read_soil_percent_from_voltage(v, calib_file))
    /\ UNCHANGED <<procVars, marker, pin, dashVars, row, fileVars, now>>

InitCalib ==
    /\ pc = [p \in Pids |-> "none"]
    /\ cold = [p \in Pids |-> TRUE]
    /\ how = [p \in Pids |-> "running"]
    /\ gpioClean = [p \in Pids |-> FALSE]
    /\ conn = [p \in Pids |-> "none"]
    /\ marker = MarkerAbsent
    /\ pin = [r \in Relays |-> "HIGH"]
    /\ logger_process = None
    /\ logger_lock = LockFree
    /\ resp = NoResp
    /\ row = NoRow
    /\ last_watering = WaterAbsent
    /\ calib_file \in CalibFiles
    /\ relay_log = <<>>
    /\ now = 0
    /\ call = NoCall

\* load_calibration() on the stored file
LoadCalibration ==
    /\ call' = Returned("load_calibration", None, load_calibration(calib_file))
    /\ UNCHANGED <<procVars, marker, pin, dashVars, row, fileVars, now>>

NextCalib == read_soil_percent \/ LoadCalibration

SpecCalib == InitCalib /\ [][NextCalib]_vars

\* ---------------------------------------------------------------------
\* C20: under every stored profile the conversion of a voltage lies between
\* 0 and 100 percent and does not increase with the voltage: a higher
\* voltage never converts to more, a lower one never to less.
C20_PercentBoundedMonotone ==
    call.fn = "read_soil_percent" =>
        /\ call.val >= 0
        /\ call.val <= 100000
        /\ \A v \in ProbeVolts :
              /\ v >= call.arg =>
                    read_soil_percent_from_voltage(v, calib_file) <= call.val
              /\ v <= call.arg =>
                    read_soil_percent_from_voltage(v, calib_file) >= call.val

\* a voltage strictly inside a profile stored wet-above-dry converts to
\* something strictly between the ends
C20_Witness ==
    /\ call.fn = "read_soil_percent"
    /\ calib_file.kind = "volt"
    /\ calib_file.dry_v < calib_file.wet_v
    /\ call.val > 0
    /\ call.val < 100000

\* the bounds the conversion works with: lines 144-149, loaded and swapped
\* when dry_v is below wet_v
ProfileInUse(file) ==
    LET calib == load_calibration(file)
    IN  IF calib.dry_v < calib.wet_v
        THEN [dry_v |-> calib.wet_v, wet_v |-> calib.dry_v]
        ELSE calib

\* ---------------------------------------------------------------------
\* C21: with a positive span a voltage at or above dry_v converts to exactly
\* 0, one at or below wet_v to exactly 100, and one strictly between to
\* (dry_v - voltage) / span * 100 rounded to 3 decimals (no further from the
\* exact quotient than half a thousandth); with a span of 0 or less every
\* voltage converts to 0.
C21_PercentValues ==
    call.fn = "read_soil_percent" =>
        LET dry_v == ProfileInUse(calib_file).dry_v
            wet_v == ProfileInUse(calib_file).wet_v
            span  == dry_v - wet_v
            exact == (dry_v - call.arg) * 100000
        IN  IF span <= 0 THEN call.val = 0
            ELSE IF call.arg >= dry_v THEN call.val = 0
            ELSE IF call.arg <= wet_v THEN call.val = 100000
            ELSE /\ 2 * (call.val * span - exact) <= span
                 /\ 2 * (exact - call.val * span) <= span

\* a voltage strictly inside a profile stored dry-above-wet whose quotient
\* is not a whole number of thousandths
C21_Witness ==
    /\ call.fn = "read_soil_percent"
    /\ calib_file.kind = "volt"
    /\ calib_file.wet_v < call.arg
    /\ call.arg < calib_file.dry_v
    /\ ((calib_file.dry_v - call.arg) * 100000) % (calib_file.dry_v - calib_file.wet_v) # 0

\* ---------------------------------------------------------------------
\* C22: a profile stored with dry_v below wet_v converts every voltage to
\* what the profile with the two bounds exchanged converts it to, and the
\* bounds in use after the load have dry_v at or above wet_v.
C22_SwapNormalizes ==
    /\ ProfileInUse(calib_file).dry_v >= ProfileInUse(calib_file).wet_v
    /\ (/\ call.fn = "read_soil_percent"
        /\ calib_file.kind = "volt"
        /\ calib_file.dry_v < calib_file.wet_v)
       => call.val = read_soil_percent_from_voltage(
                         call.arg, CalibV(calib_file.wet_v, calib_file.dry_v))

\* a voltage inside a profile stored wet-above-dry, converted to neither end
C22_Witness ==
    /\ call.fn = "read_soil_percent"
    /\ calib_file.kind = "volt"
    /\ calib_file.dry_v < call.arg
    /\ call.arg < calib_file.wet_v
    /\ call.val \notin {0, 100000}

\* ---------------------------------------------------------------------
\* C23: load_calibration returns the defaults 1.60 V / 0.20 V when the file
\* is missing, unreadable, corrupt, holds non-numeric voltages or is of the
\* old {dry, wet} kind, and exactly the stored voltages when both are there
\* and numeric; it never fails its caller.
C23_LoadDefaults ==
    call.fn = "load_calibration" =>
        /\ call.ret = "value"
        /\ call.val = IF calib_file.kind = "volt"
                      THEN [dry_v |-> calib_file.dry_v, wet_v |-> calib_file.wet_v]
                      ELSE [dry_v |-> 1600, wet_v |-> 200]

\* the old {dry, wet} file was loaded
C23_Witness ==
    /\ call.fn = "load_calibration"
    /\ calib_file = CalibLegacy


\* =====================================================================
\*     the calibration capture next to the loop and the conversion
\* =====================================================================
\* what read_soil_raw hands to calibrate_ads: nothing, or a voltage
CaptureVolts == {None, 500, 1400}

\* the --dry / --wet switches of `logger.py calibrate_ads`
FlagName(dry, wet) ==
    IF dry /\ wet THEN "both" ELSE IF dry THEN "dry" ELSE IF wet THEN "wet" ELSE "neither"

\* the capture taking the bound it does not set from the defaults
calibrate_ads_from_defaults ==
    /\ \E dry, wet \in BOOLEAN, v \in CaptureVolts :
         /\ call' = Called("calibrate_ads", v, FlagName(dry, wet))
         /\ calib_file' =
               IF v = None THEN calib_file
               ELSE CalibV(IF dry THEN v ELSE defDryV, IF wet THEN v ELSE defWetV)
    /\ UNCHANGED <<procVars, marker, pin, dashVars, row, last_watering, relay_log, now>>

\* calibrate_ads(dry, wet): no voltage, no write; otherwise the loaded
\* profile with the chosen bounds set to the voltage is dumped to the file
calibrate_ads ==
    /\ \E dry, wet \in BOOLEAN, v \in CaptureVolts :
         /\ call' = Called("calibrate_ads", v, FlagName(dry, wet))
         /\ calib_file' =
               IF v = None THEN calib_file
               ELSE LET calib == load_calibration(calib_file)
                    IN  CalibV(IF dry THEN v ELSE calib.dry_v,
                               IF wet THEN v ELSE calib.wet_v)
    /\ UNCHANGED <<procVars, marker, pin, dashVars, row, last_watering, relay_log, now>>

NextCapture ==
    \/ NextLoop
    \/ calibrate_ads
    \/ read_soil_percent

SpecCapture == Init /\ [][NextCapture]_vars

\* a step of the logger process
LoggerStep == pc' # pc \/ row' # row \/ now' # now

\* ---------------------------------------------------------------------
\* C24: the stored calibration changes only through the capture. No step
\* of the acquisition loop and no conversion writes it; a capture of the dry
\* reference sets dry_v to the live voltage and keeps wet_v as loaded, a
\* capture of the wet reference sets wet_v and keeps dry_v as loaded, and a
\* capture whose sensor read failed leaves the file as it was.
C24_OnlyCaptureWrites ==
    [][LET calib == load_calibration(calib_file)
       IN  /\ LoggerStep => calib_file' = calib_file
           /\ call'.fn # "calibrate_ads" => calib_file' = calib_file
           /\ (call'.fn = "calibrate_ads" /\ ~LoggerStep) =>
                 /\ call'.arg = None => calib_file' = calib_file
                 /\ (call'.arg # None /\ call'.ret = "dry") =>
                       calib_file' = CalibV(call'.arg, calib.wet_v)
                 /\ (call'.arg # None /\ call'.ret = "wet") =>
                       calib_file' = CalibV(calib.dry_v, call'.arg)]_vars

\* a wet capture after a dry one: the dry bound is the captured one, not
\* the default, and the loop has persisted a row
C24_Witness ==
    /\ call.fn = "calibrate_ads"
    /\ call.ret = "wet"
    /\ call.arg = 500
    /\ calib_file = CalibV(1400, 500)
    /\ row # NoRow

\* ---------------------------------------------------------------------
\* C25: the watering record changes only at the end of a successful
\* watering action. A decision, whatever it returns, and a watering action
\* that fails before completing leave it as it was.
C25_RecordOnlyAfterWatering ==
    [][/\ last_watering' # last_watering =>
             (call'.fn = "perform_watering" /\ call'.ret = "done")
       /\ (call' # call /\ call'.fn \in {"should_water", "decision"}) =>
             last_watering' = last_watering
       /\ (call' # call /\ call'.fn = "perform_watering" /\ call'.ret # "done") =>
             last_watering' = last_watering]_vars

\* a watering action attempted once the cooldown of the stored record is
\* over has failed, and the record is still the old one
C25_Witness ==
    /\ call.fn = "perform_watering"
    /\ call.ret = "NameError"
    /\ last_watering = WaterTs(10)
    /\ call.at >= 10 + WATERING_COOLDOWN

\* ---------------------------------------------------------------------
\* C26: when an instance begins its first cycle both relays are logically
\* OFF, their outputs electrically HIGH, whatever they were before the
\* instance started.
C26_RelaysOffAtFirstCycle ==
    [][\A p \in Pids :
          (pc[p] = "init_db" /\ pc'[p] = "cycle") =>
             \A r \in Relays : ~get_relay_state(pin', r) /\ pin'[r] = "HIGH"]_vars

\* ---------------------------------------------------------------------
\* C27: should_water returns true exactly when soil_percent is present and
\* below 40.0 and either there is no watering record, or the record cannot
\* be parsed, or it is at least 3600 s old; the call changes neither a
\* relay output nor the watering record.
C27_ShouldWaterExactly ==
    [][(call' # call /\ call'.fn = "should_water") =>
          /\ call'.ret = PyBool(/\ call'.arg # None
                                /\ call'.arg < 40000
                                /\ \/ last_watering.kind \in {"absent", "garbage"}
                                   \/ now - last_watering.ts >= 3600)
          /\ pin' = pin
          /\ last_watering' = last_watering]_vars

\* a reading just below the threshold with an unparsable record: watering
\* is allowed
C27_Witness ==
    /\ call.fn = "should_water"
    /\ call.arg = 39999
    /\ last_watering = WaterGarbage
    /\ call.ret = "True"

\* the dashboard still holds the handle of a child that has ended
ManagedExited == logger_process # None /\ pc[logger_process] \in EndPcs

\* ---------------------------------------------------------------------
\* C28: whatever start(), stop() and exits of the managed process came
\* before, status() reports a pid exactly when it reports running; and a
\* start() made once the managed process has ended by itself is not
\* answered already_running.
C28_StatusPidIffRunning ==
    [][/\ resp'.op = "status" => (resp'.pid # None <=> resp'.running)
       /\ (ManagedExited /\ StartCalled) =>
             ~(resp' # resp /\ resp'.msg = "already_running")]_vars

\* status() reports the second child running after the first process has
\* left through its finally block
C28_Witness ==
    /\ resp.op = "status"
    /\ resp.running
    /\ resp.pid = 2
    /\ pc[1] = "exited"
====
